---- MODULE Spec2Model ----
(***************************************************************************)
(* A model of the ad9361-iio crate: the direction-typed Transceiver with   *)
(* its sample-buffer lifecycle and streaming calls (src/src/lib.rs), the   *)
(* range-validated Channel setters (src/src/channel.rs), the string-backed *)
(* mode enumerations and the construction of the AD9361 facade.            *)
(*                                                                         *)
(* The Device Access Layer (industrial_io) is external: every fallible     *)
(* call into it either succeeds or fails, chosen nondeterministically.     *)
(* Each action is one call of one method; `calls` is the list of Device    *)
(* Access Layer calls that method made, `result` what it returned.         *)
(***************************************************************************)
EXTENDS Integers, Sequences, FiniteSets, TLC

VARIABLES
    direction,      \* the marker type T of the modelled Transceiver<T>: "Rx" or "Tx"
    buffer,         \* Transceiver.buffer: NoBuffer (None) or a buffer record (Some)
    hw_buffers,     \* hardware sample buffers allocated on Transceiver.device, not yet released
    enabled,        \* per lane, whether the I and the Q data sub-channel are enabled
    last_lifecycle, \* history: the most recent call that changed the buffer state:
                    \* "create" (an allocation that succeeded), "destroy" (a
                    \* destroy_buffer that released a buffer), "none" so far
    dropped,        \* the Transceiver has been destroyed (Drop has run)
    attrs,          \* per lane, the control channel's integer attributes on the hardware
    lo_frequency,   \* the "frequency" attribute of the local-oscillator channel
    hw_token,       \* the string in flight between the crate and the hardware: the
                    \* one to_str rendered last or the one the hardware reports
    missing,        \* the devices and channels the Context does not hold
    ctor_pc,        \* from_ctx: index of the next resolution, 0 once it has returned
    ctor_trace,     \* from_ctx: the resolutions attempted so far, in order
    calls,          \* Device Access Layer calls made by the last operation, in order
    result          \* the last operation and the value it returned

vars == << direction, buffer, hw_buffers, enabled, last_lifecycle, dropped, attrs,
           lo_frequency, hw_token, missing, ctor_pc, ctor_trace, calls, result >>

transceiver_vars == << direction, buffer, hw_buffers, enabled, last_lifecycle, dropped >>
config_vars == << attrs, lo_frequency >>
ctor_vars == << missing, ctor_pc, ctor_trace >>

----------------------------------------------------------------------------
(* Bounds of the model *)

\* create_buffer is called with sample_count in 1..MaxSampleCount
MaxSampleCount == 1
\* a sample (i16) is drawn from 0..MaxSample
MaxSample == 1
\* a Context lacks at most MaxMissing of the devices and channels from_ctx resolves
MaxMissing == 2

----------------------------------------------------------------------------
(* Values *)

Lanes == {0, 1}
Directions == {"Rx", "Tx"}
Samples == 0 .. MaxSample
SampleCounts == 1 .. MaxSampleCount

\* Signal { i_channel: Vec<i16>, q_channel: Vec<i16> }; a Vec is one block of samples
Signal(i, q) == [i_channel |-> << i >>, q_channel |-> << q >>]
Signals == { Signal(i, q) : i \in Samples, q \in Samples }
NoSignal == [i_channel |-> << >>, q_channel |-> << >>]

\* Option<Buffer>::None
NoBuffer == [some |-> FALSE, sample_count |-> 0, cyclic |-> FALSE,
             data |-> [l \in Lanes |-> NoSignal]]

\* the contents a hardware buffer can hold: one block of I and of Q samples per lane
Contents == [Lanes -> Signals]

\* Option<Buffer>::Some(buffer)
SomeBuffer(sample_count, cyclic, data) ==
    [some |-> TRUE, sample_count |-> sample_count, cyclic |-> cyclic, data |-> data]

\* Result<_, Error>: Ok carries an integer and/or a string and/or a Signal,
\* Err carries the Error variant and the value that variant holds.
Ok(int, str, sig) ==
    [ok |-> TRUE, err |-> "", int |-> int, int2 |-> 0, str |-> str, sig |-> sig]
OkUnit == Ok(0, "", NoSignal)
\* Ok((write_i, write_q))
OkPair(a, b) ==
    [ok |-> TRUE, err |-> "", int |-> a, int2 |-> b, str |-> "", sig |-> NoSignal]
Err(kind, int, str) ==
    [ok |-> FALSE, err |-> kind, int |-> int, int2 |-> 0, str |-> str, sig |-> NoSignal]

\* impl From<industrial_io::Error> for Error
GeneralIIOError == Err("GeneralIIOError", 0, "")
NoRxBuff == Err("NoRxBuff", 0, "")
NoTxBuff == Err("NoTxBuff", 0, "")
NoChannelOnDevice == Err("NoChannelOnDevice", 0, "")
NoSuchDevice(part) == Err("NoSuchDevice", 0, part)
OutOfRangeIntValue(v) == Err("OutOfRangeIntValue", v, "")
UnexpectedStringValue(s) == Err("UnexpectedStringValue", 0, s)

\* what `result` records: the operation, its lane (or -1), its arguments, its return value
Returned(op, lane, arg, ret) == [op |-> op, lane |-> lane, arg |-> arg, ret |-> ret]
NoArg == [int |-> 0, str |-> "", sig |-> NoSignal]
IntArg(v) == [int |-> v, str |-> "", sig |-> NoSignal]
StrArg(s) == [int |-> 0, str |-> s, sig |-> NoSignal]
SigArg(s) == [int |-> 0, str |-> "", sig |-> s]

\* one Device Access Layer call: the function, the lane of the channel it is made
\* on (-1: the device or the oscillator channel), the attribute or sub-channel it
\* names, the integer passed
Call(fn, chan, what, val) == [fn |-> fn, chan |-> chan, what |-> what, val |-> val]

----------------------------------------------------------------------------
(* Transceiver<T>: buffer lifecycle, streaming, teardown (src/src/lib.rs) *)

\* the calls that disable the I and the Q sub-channel of one lane
DisableCalls(chan_id) ==
    << Call("disable", chan_id, "i", 0), Call("disable", chan_id, "q", 0) >>
EnableCalls(chan_id) ==
    << Call("enable", chan_id, "i", 0), Call("enable", chan_id, "q", 0) >>

\* Assigning to self.buffer drops the Buffer it held: the number of hardware
\* buffers that releases, and the release call the drop makes.
Released_leak(old) == 0
Released(old) == IF old.some THEN 1 ELSE 0
ReleaseCalls(old) == IF old.some THEN << Call("buffer_destroy", -1, "", 0) >> ELSE << >>

\* self.device.create_buffer(sample_count, cyclic)
AllocCall(sample_count, cyclic) ==
    Call("create_buffer", -1, IF cyclic THEN "cyclic" ELSE "", sample_count)

\* let Some(buf) = &self.buffer else { return Err(..) }
BufferPresent_unchecked == TRUE
BufferPresent == buffer.some

\* Transceiver::enable(chan_id)
enable(chan_id) ==
    /\ ~dropped
    /\ enabled' = [enabled EXCEPT ![chan_id] = [i |-> TRUE, q |-> TRUE]]
    /\ calls' = EnableCalls(chan_id)
    /\ result' = Returned("enable", chan_id, NoArg, OkUnit)
    /\ UNCHANGED << direction, buffer, hw_buffers, last_lifecycle, dropped >>
    /\ UNCHANGED << config_vars, ctor_vars, hw_token >>

\* Transceiver::disable(chan_id)
disable(chan_id) ==
    /\ ~dropped
    /\ enabled' = [enabled EXCEPT ![chan_id] = [i |-> FALSE, q |-> FALSE]]
    /\ calls' = DisableCalls(chan_id)
    /\ result' = Returned("disable", chan_id, NoArg, OkUnit)
    /\ UNCHANGED << direction, buffer, hw_buffers, last_lifecycle, dropped >>
    /\ UNCHANGED << config_vars, ctor_vars, hw_token >>

\* create_buffer as it would be if it gave up the old buffer before allocating
create_buffer_releases_first(sample_count, cyclic, dal_ok, data) ==
    /\ ~dropped
    /\ calls' = ReleaseCalls(buffer) \o << AllocCall(sample_count, cyclic) >>
    /\ IF dal_ok
       THEN /\ buffer' = SomeBuffer(sample_count, cyclic, data)
            /\ hw_buffers' = hw_buffers - Released(buffer) + 1
            /\ last_lifecycle' = "create"
            /\ result' = Returned("create_buffer", -1, IntArg(sample_count), OkUnit)
       ELSE /\ buffer' = NoBuffer
            /\ hw_buffers' = hw_buffers - Released(buffer)
            /\ last_lifecycle' = IF buffer.some THEN "destroy" ELSE last_lifecycle
            /\ result' = Returned("create_buffer", -1, IntArg(sample_count), GeneralIIOError)
    /\ UNCHANGED << direction, enabled, dropped >>
    /\ UNCHANGED << config_vars, ctor_vars, hw_token >>

\* Transceiver::create_buffer(sample_count, cyclic). dal_ok: whether
\* Device::create_buffer succeeds; data: what the fresh buffer holds.
create_buffer(sample_count, cyclic, dal_ok, data) ==
    /\ ~dropped
    /\ IF dal_ok
       THEN /\ buffer' = SomeBuffer(sample_count, cyclic, data)
            /\ calls' = << AllocCall(sample_count, cyclic) >> \o ReleaseCalls(buffer)
            /\ hw_buffers' = hw_buffers + 1 - Released(buffer)
            /\ last_lifecycle' = "create"
            /\ result' = Returned("create_buffer", -1, IntArg(sample_count), OkUnit)
       ELSE /\ UNCHANGED << buffer, hw_buffers, last_lifecycle >>
            /\ calls' = << AllocCall(sample_count, cyclic) >>
            /\ result' = Returned("create_buffer", -1, IntArg(sample_count), GeneralIIOError)
    /\ UNCHANGED << direction, enabled, dropped >>
    /\ UNCHANGED << config_vars, ctor_vars, hw_token >>

\* destroy_buffer as it would be if it released nothing
destroy_buffer_keeps ==
    /\ ~dropped
    /\ calls' = << >>
    /\ last_lifecycle' = IF buffer.some THEN "destroy" ELSE last_lifecycle
    /\ result' = Returned("destroy_buffer", -1, NoArg, OkUnit)
    /\ UNCHANGED << direction, buffer, hw_buffers, enabled, dropped >>
    /\ UNCHANGED << config_vars, ctor_vars, hw_token >>

\* Transceiver::destroy_buffer()
destroy_buffer ==
    /\ ~dropped
    /\ buffer' = NoBuffer
    /\ hw_buffers' = hw_buffers - Released(buffer)
    /\ calls' = ReleaseCalls(buffer)
    /\ last_lifecycle' = IF buffer.some THEN "destroy" ELSE last_lifecycle
    /\ result' = Returned("destroy_buffer", -1, NoArg, OkUnit)
    /\ UNCHANGED << direction, enabled, dropped >>
    /\ UNCHANGED << config_vars, ctor_vars, hw_token >>

\* Transceiver<Rx>::pool_samples_to_buff(). dal_ok: whether Buffer::refill
\* succeeds; fresh: the samples the hardware delivers.
pool_samples_to_buff(dal_ok, fresh) ==
    /\ ~dropped
    /\ direction = "Rx"
    /\ IF ~BufferPresent
       THEN /\ result' = Returned("pool_samples_to_buff", -1, NoArg, NoRxBuff)
            /\ calls' = << >>
            /\ UNCHANGED buffer
       ELSE /\ calls' = << Call("refill", -1, "", 0) >>
            /\ IF dal_ok
               THEN /\ buffer' = [buffer EXCEPT !.data = fresh]
                    /\ result' = Returned("pool_samples_to_buff", -1, NoArg,
                                          Ok(buffer.sample_count, "", NoSignal))
               ELSE /\ UNCHANGED buffer
                    /\ result' = Returned("pool_samples_to_buff", -1, NoArg, GeneralIIOError)
    /\ UNCHANGED << direction, hw_buffers, enabled, last_lifecycle, dropped >>
    /\ UNCHANGED << config_vars, ctor_vars, hw_token >>

\* read as it would be if it decoded the sub-channels of lane 0 for every lane
read_lane0(chan_id, i_ok, q_ok) ==
    /\ ~dropped
    /\ direction = "Rx"
    /\ IF ~BufferPresent
       THEN /\ result' = Returned("read", chan_id, NoArg, NoRxBuff)
            /\ calls' = << >>
       ELSE IF ~i_ok
       THEN /\ result' = Returned("read", chan_id, NoArg, GeneralIIOError)
            /\ calls' = << Call("read", 0, "i", 0) >>
       ELSE IF ~q_ok
       THEN /\ result' = Returned("read", chan_id, NoArg, GeneralIIOError)
            /\ calls' = << Call("read", 0, "i", 0), Call("read", 0, "q", 0) >>
       ELSE /\ result' = Returned("read", chan_id, NoArg,
                                  Ok(0, "", [i_channel |-> buffer.data[0].i_channel,
                                             q_channel |-> buffer.data[0].q_channel]))
            /\ calls' = << Call("read", 0, "i", 0), Call("read", 0, "q", 0) >>
    /\ UNCHANGED transceiver_vars
    /\ UNCHANGED << config_vars, ctor_vars, hw_token >>

\* Transceiver<Rx>::read(chan_id). i_ok, q_ok: whether Channel::read of the I and
\* of the Q sub-channel succeeds.
read(chan_id, i_ok, q_ok) ==
    /\ ~dropped
    /\ direction = "Rx"
    /\ IF ~BufferPresent
       THEN /\ result' = Returned("read", chan_id, NoArg, NoRxBuff)
            /\ calls' = << >>
       ELSE IF ~i_ok
       THEN /\ result' = Returned("read", chan_id, NoArg, GeneralIIOError)
            /\ calls' = << Call("read", chan_id, "i", 0) >>
       ELSE IF ~q_ok
       THEN /\ result' = Returned("read", chan_id, NoArg, GeneralIIOError)
            /\ calls' = << Call("read", chan_id, "i", 0), Call("read", chan_id, "q", 0) >>
       ELSE /\ result' = Returned("read", chan_id, NoArg,
                                  Ok(0, "", [i_channel |-> buffer.data[chan_id].i_channel,
                                             q_channel |-> buffer.data[chan_id].q_channel]))
            /\ calls' = << Call("read", chan_id, "i", 0), Call("read", chan_id, "q", 0) >>
    /\ UNCHANGED transceiver_vars
    /\ UNCHANGED << config_vars, ctor_vars, hw_token >>

\* Transceiver<Tx>::push_samples_to_device(). dal_ok: whether Buffer::push succeeds.
push_samples_to_device(dal_ok) ==
    /\ ~dropped
    /\ direction = "Tx"
    /\ IF ~BufferPresent
       THEN /\ result' = Returned("push_samples_to_device", -1, NoArg, NoTxBuff)
            /\ calls' = << >>
       ELSE /\ calls' = << Call("push", -1, "", 0) >>
            /\ result' = Returned("push_samples_to_device", -1, NoArg,
                                  IF dal_ok THEN Ok(buffer.sample_count, "", NoSignal)
                                            ELSE GeneralIIOError)
    /\ UNCHANGED transceiver_vars
    /\ UNCHANGED << config_vars, ctor_vars, hw_token >>

\* Transceiver<Tx>::write(chan_id, signal). i_ok, q_ok: whether Channel::write of
\* the I and of the Q component succeeds.
write(chan_id, signal, i_ok, q_ok) ==
    /\ ~dropped
    /\ direction = "Tx"
    /\ IF ~BufferPresent
       THEN /\ result' = Returned("write", chan_id, SigArg(signal), NoTxBuff)
            /\ calls' = << >>
            /\ UNCHANGED buffer
       ELSE IF ~i_ok
       THEN /\ result' = Returned("write", chan_id, SigArg(signal), GeneralIIOError)
            /\ calls' = << Call("write", chan_id, "i", 0) >>
            /\ UNCHANGED buffer
       ELSE IF ~q_ok
       THEN /\ result' = Returned("write", chan_id, SigArg(signal), GeneralIIOError)
            /\ calls' = << Call("write", chan_id, "i", 0), Call("write", chan_id, "q", 0) >>
            /\ buffer' = [buffer EXCEPT !.data[chan_id].i_channel = signal.i_channel]
       ELSE /\ result' = Returned("write", chan_id, SigArg(signal),
                                  OkPair(Len(signal.i_channel), Len(signal.q_channel)))
            /\ calls' = << Call("write", chan_id, "i", 0), Call("write", chan_id, "q", 0) >>
            /\ buffer' = [buffer EXCEPT !.data[chan_id] = signal]
    /\ UNCHANGED << direction, hw_buffers, enabled, last_lifecycle, dropped >>
    /\ UNCHANGED << config_vars, ctor_vars, hw_token >>

\* drop as it would be if it disabled lane 0 twice and lane 1 never
drop_lane0_twice ==
    /\ ~dropped
    /\ buffer' = NoBuffer
    /\ hw_buffers' = hw_buffers - Released(buffer)
    /\ enabled' = [enabled EXCEPT ![0] = [i |-> FALSE, q |-> FALSE]]
    /\ calls' = ReleaseCalls(buffer) \o DisableCalls(0) \o DisableCalls(0)
    /\ dropped' = TRUE
    /\ result' = Returned("drop", -1, NoArg, OkUnit)
    /\ UNCHANGED << direction, last_lifecycle >>
    /\ UNCHANGED << config_vars, ctor_vars, hw_token >>

\* impl Drop for Transceiver<T>: self.buffer = None; self.disable(0); self.disable(1)
drop ==
    /\ ~dropped
    /\ buffer' = NoBuffer
    /\ hw_buffers' = hw_buffers - Released(buffer)
    /\ enabled' = [l \in Lanes |-> [i |-> FALSE, q |-> FALSE]]
    /\ calls' = ReleaseCalls(buffer) \o DisableCalls(0) \o DisableCalls(1)
    /\ dropped' = TRUE
    /\ result' = Returned("drop", -1, NoArg, OkUnit)
    /\ UNCHANGED << direction, last_lifecycle >>
    /\ UNCHANGED << config_vars, ctor_vars, hw_token >>

----------------------------------------------------------------------------
(* The state after construction: from_ctx sets buffer: None (lib.rs:106-118) *)

Constructed == Returned("from_ctx", -1, NoArg, OkUnit)

InitOther ==
    /\ attrs = [l \in Lanes |-> [rf_bandwidth |-> 0, sampling_frequency |-> 0]]
    /\ lo_frequency = 0
    /\ hw_token = ""
    /\ missing = {}
    /\ ctor_pc = 0
    /\ ctor_trace = << >>

Init ==
    /\ direction \in Directions
    /\ buffer = NoBuffer
    /\ hw_buffers = 0
    /\ enabled = [l \in Lanes |-> [i |-> FALSE, q |-> FALSE]]
    /\ last_lifecycle = "none"
    /\ dropped = FALSE
    /\ calls = << >>
    /\ result = Constructed
    /\ InitOther

Next ==
    \/ \E l \in Lanes : enable(l)
    \/ \E l \in Lanes : disable(l)
    \/ \E n \in SampleCounts, c \in BOOLEAN :
          \/ \E d \in Contents : create_buffer(n, c, TRUE, d)
          \/ create_buffer(n, c, FALSE, NoBuffer.data)
    \/ destroy_buffer
    \/ \E d \in Contents : pool_samples_to_buff(TRUE, d)
    \/ pool_samples_to_buff(FALSE, NoBuffer.data)
    \/ \E l \in Lanes, i_ok \in BOOLEAN, q_ok \in BOOLEAN : read(l, i_ok, q_ok)
    \/ \E ok \in BOOLEAN : push_samples_to_device(ok)
    \/ \E l \in Lanes, s \in Signals, i_ok \in BOOLEAN, q_ok \in BOOLEAN :
          write(l, s, i_ok, q_ok)
    \/ drop

Spec == Init /\ [][Next]_vars

----------------------------------------------------------------------------
(* Integer attributes: the Channel<T> setters of src/src/channel.rs and the
   per-lane setters and set_lo of Transceiver<T> in src/src/lib.rs. Both write
   the attributes of the lane's control channel on the hardware. *)

\* const RF_BANDWIDTH_RANGE: Range<i64> = 200000..56000000
RF_BANDWIDTH_RANGE == [start |-> 200000, end |-> 56000000]
\* const SAMPLING_FREQUENCY_RANGE: Range<i64> = 2083333..61440000
SAMPLING_FREQUENCY_RANGE == [start |-> 2083333, end |-> 61440000]

\* Range::contains with an inclusive end, as RangeInclusive would have it
contains_inclusive(range, x) == range.start <= x /\ x <= range.end
\* Range<i64>::contains(&x): start <= x < end
contains(range, x) == range.start <= x /\ x < range.end

\* the values the setters are called with: the first and the last value of the
\* range and the values next to them outside it
Around(range) == {range.start - 1, range.start, range.end - 1, range.end}
BandwidthInputs == Around(RF_BANDWIDTH_RANGE)
SamplingInputs == Around(SAMPLING_FREQUENCY_RANGE)
\* values set_lo is called with; all are below 6000000000
LoInputs == {-1, 46875000, 46875001}

\* self.control.attr_write_int(attr, value)?; Ok(())
\* what the call returns and the Device Access Layer call it makes
WriteInt(chan, attr, value, dal_ok) ==
    [ret |-> IF dal_ok THEN OkUnit ELSE GeneralIIOError,
     calls |-> << Call("attr_write_int", chan, attr, value) >>,
     written |-> dal_ok]

\* if RANGE.contains(&value) { write } else { Err(Error::OutOfRangeIntValue(value)) }
Validated(range, chan, attr, value, dal_ok) ==
    IF contains(range, value)
    THEN WriteInt(chan, attr, value, dal_ok)
    ELSE [ret |-> OutOfRangeIntValue(value), calls |-> << >>, written |-> FALSE]

\* the effect of a setter's outcome on the lane's attribute on the hardware
Store(out, chan_id, attr, value) ==
    /\ calls' = out.calls
    /\ attrs' = IF out.written THEN [attrs EXCEPT ![chan_id][attr] = value] ELSE attrs

\* Channel::set_rf_bandwidth(bandwidth), on the Channel of lane chan_id
Channel_set_rf_bandwidth(chan_id, bandwidth, dal_ok) ==
    LET out == Validated(RF_BANDWIDTH_RANGE, chan_id, "rf_bandwidth", bandwidth, dal_ok) IN
    /\ Store(out, chan_id, "rf_bandwidth", bandwidth)
    /\ result' = Returned("Channel::set_rf_bandwidth", chan_id, IntArg(bandwidth), out.ret)
    /\ UNCHANGED << transceiver_vars, lo_frequency, ctor_vars, hw_token >>

\* Channel::set_sampling_frequency(samplerate), on the Channel of lane chan_id
Channel_set_sampling_frequency(chan_id, samplerate, dal_ok) ==
    LET out == Validated(SAMPLING_FREQUENCY_RANGE, chan_id, "sampling_frequency",
                         samplerate, dal_ok) IN
    /\ Store(out, chan_id, "sampling_frequency", samplerate)
    /\ result' = Returned("Channel::set_sampling_frequency", chan_id, IntArg(samplerate),
                          out.ret)
    /\ UNCHANGED << transceiver_vars, lo_frequency, ctor_vars, hw_token >>

\* Transceiver::set_rf_bandwidth(chan_id, bandwidth)
Transceiver_set_rf_bandwidth(chan_id, bandwidth, dal_ok) ==
    LET out == WriteInt(chan_id, "rf_bandwidth", bandwidth, dal_ok) IN
    /\ ~dropped
    /\ Store(out, chan_id, "rf_bandwidth", bandwidth)
    /\ result' = Returned("Transceiver::set_rf_bandwidth", chan_id, IntArg(bandwidth),
                          out.ret)
    /\ UNCHANGED << transceiver_vars, lo_frequency, ctor_vars, hw_token >>

\* Transceiver::set_sampling_frequency(chan_id, samplerate)
Transceiver_set_sampling_frequency(chan_id, samplerate, dal_ok) ==
    LET out == WriteInt(chan_id, "sampling_frequency", samplerate, dal_ok) IN
    /\ ~dropped
    /\ Store(out, chan_id, "sampling_frequency", samplerate)
    /\ result' = Returned("Transceiver::set_sampling_frequency", chan_id,
                          IntArg(samplerate), out.ret)
    /\ UNCHANGED << transceiver_vars, lo_frequency, ctor_vars, hw_token >>

\* Transceiver::set_lo(freq): self.lo.attr_write_int("frequency", freq)?; Ok(())
set_lo(freq, dal_ok) ==
    LET out == WriteInt(-1, "frequency", freq, dal_ok) IN
    /\ ~dropped
    /\ calls' = out.calls
    /\ lo_frequency' = IF out.written THEN freq ELSE lo_frequency
    /\ result' = Returned("set_lo", -1, IntArg(freq), out.ret)
    /\ UNCHANGED << transceiver_vars, attrs, ctor_vars, hw_token >>

\* a constructed Transceiver of either direction; the hardware holds some
\* attribute values
InitConfig ==
    /\ direction \in Directions
    /\ buffer = NoBuffer
    /\ hw_buffers = 0
    /\ enabled = [l \in Lanes |-> [i |-> FALSE, q |-> FALSE]]
    /\ last_lifecycle = "none"
    /\ dropped = FALSE
    /\ attrs = [l \in Lanes |-> [rf_bandwidth |-> RF_BANDWIDTH_RANGE.start,
                                 sampling_frequency |-> SAMPLING_FREQUENCY_RANGE.start]]
    /\ lo_frequency = 46875001
    /\ hw_token = ""
    /\ missing = {}
    /\ ctor_pc = 0
    /\ ctor_trace = << >>
    /\ calls = << >>
    /\ result = Constructed

NextConfig ==
    \/ \E l \in Lanes, b \in BandwidthInputs, ok \in BOOLEAN :
          Channel_set_rf_bandwidth(l, b, ok)
    \/ \E l \in Lanes, r \in SamplingInputs, ok \in BOOLEAN :
          Channel_set_sampling_frequency(l, r, ok)
    \/ \E l \in Lanes, b \in BandwidthInputs, ok \in BOOLEAN :
          Transceiver_set_rf_bandwidth(l, b, ok)
    \/ \E l \in Lanes, r \in SamplingInputs, ok \in BOOLEAN :
          Transceiver_set_sampling_frequency(l, r, ok)
    \/ \E f \in LoInputs, ok \in BOOLEAN : set_lo(f, ok)

SpecConfig == InitConfig /\ [][NextConfig]_vars

----------------------------------------------------------------------------
(* The mode enumerations: to_str renders a variant as the token the hardware
   uses, try_from parses a token the hardware reports. A variant is named as in
   the source; Ok(variant) carries that name. *)

Enums == {"CalibMode", "ENSMMode", "GainControlMode", "RxPortSelect", "TxPortSelect"}

\* enum CalibMode
CalibMode ==
    {"Auto", "Manual", "ManualTxQuad", "TxQuad", "RFdcOffs",
     "RSSIGainStep"}

\* CalibMode::to_str(&self)
CalibMode_to_str(v) ==
    CASE v = "Auto" -> "auto"
      [] v = "Manual" -> "manual"
      [] v = "ManualTxQuad" -> "manual_tx_quad"
      [] v = "TxQuad" -> "tx_quad"
      [] v = "RFdcOffs" -> "rf_dc_offs"
      [] v = "RSSIGainStep" -> "rssi_gain_step"

\* impl TryFrom<String> for CalibMode
CalibMode_try_from(string) ==
    CASE string = "auto" -> Ok(0, "Auto", NoSignal)
      [] string = "manual" -> Ok(0, "Manual", NoSignal)
      [] string = "manual_tx_quad" -> Ok(0, "ManualTxQuad", NoSignal)
      [] string = "tx_quad" -> Ok(0, "TxQuad", NoSignal)
      [] string = "rf_dc_offs" -> Ok(0, "RFdcOffs", NoSignal)
      [] string = "rssi_gain_step" -> Ok(0, "RSSIGainStep", NoSignal)
      [] OTHER -> UnexpectedStringValue(string)

\* enum ENSMMode
ENSMMode ==
    {"Sleep", "Wait", "Alert", "FDD", "PinCtrl", "PinCtrlFDDIndep"}

\* ENSMMode::to_str(&self)
ENSMMode_to_str(v) ==
    CASE v = "Sleep" -> "sleep"
      [] v = "Wait" -> "wait"
      [] v = "Alert" -> "alert"
      [] v = "FDD" -> "fdd"
      [] v = "PinCtrl" -> "pinctrl"
      [] v = "PinCtrlFDDIndep" -> "pinctrl_fdd_indep"

\* impl TryFrom<String> for ENSMMode
ENSMMode_try_from(string) ==
    CASE string = "sleep" -> Ok(0, "Sleep", NoSignal)
      [] string = "wait" -> Ok(0, "Wait", NoSignal)
      [] string = "alert" -> Ok(0, "Alert", NoSignal)
      [] string = "fdd" -> Ok(0, "FDD", NoSignal)
      [] string = "pinctrl" -> Ok(0, "PinCtrl", NoSignal)
      [] string = "pinctrl_fdd_indep" -> Ok(0, "PinCtrlFDDIndep", NoSignal)
      [] OTHER -> UnexpectedStringValue(string)

\* enum GainControlMode
GainControlMode ==
    {"FastAttack", "Hybrid", "Manual", "SlowAttack"}

\* GainControlMode::to_str(&self)
GainControlMode_to_str(v) ==
    CASE v = "FastAttack" -> "fast_attack"
      [] v = "Hybrid" -> "hybrid"
      [] v = "Manual" -> "manual"
      [] v = "SlowAttack" -> "slow_attack"

\* impl TryFrom<String> for GainControlMode
GainControlMode_try_from(string) ==
    CASE string = "fast_attack" -> Ok(0, "FastAttack", NoSignal)
      [] string = "hybrid" -> Ok(0, "Hybrid", NoSignal)
      [] string = "manual" -> Ok(0, "Manual", NoSignal)
      [] string = "slow_attack" -> Ok(0, "SlowAttack", NoSignal)
      [] OTHER -> UnexpectedStringValue(string)

\* enum RxPortSelect
RxPortSelect ==
    {"ABalanced", "AN", "AP", "BBalanced", "BN", "BP", "CBalanced", "CN",
     "CP", "TxMonitor1", "TxMonitor12", "TxMonitor2"}

\* RxPortSelect::to_str with TxMonitor12 rendered without its underscore
RxPortSelect_to_str_typo(v) ==
    IF v = "TxMonitor12" THEN "TX_MONITOR12"
    ELSE CASE v = "ABalanced" -> "A_BALANCED"
      [] v = "AN" -> "A_N"
      [] v = "AP" -> "A_P"
      [] v = "BBalanced" -> "B_BALANCED"
      [] v = "BN" -> "B_N"
      [] v = "BP" -> "B_P"
      [] v = "CBalanced" -> "C_BALANCED"
      [] v = "CN" -> "C_N"
      [] v = "CP" -> "C_P"
      [] v = "TxMonitor1" -> "TX_MONITOR1"
      [] v = "TxMonitor2" -> "TX_MONITOR2"

\* RxPortSelect::try_from matching "a_balanced" as well as "A_BALANCED"
RxPortSelect_try_from_lenient(string) ==
    IF string = "a_balanced" THEN Ok(0, "ABalanced", NoSignal)
    ELSE CASE string = "A_BALANCED" -> Ok(0, "ABalanced", NoSignal)
      [] string = "A_N" -> Ok(0, "AN", NoSignal)
      [] string = "A_P" -> Ok(0, "AP", NoSignal)
      [] string = "B_BALANCED" -> Ok(0, "BBalanced", NoSignal)
      [] string = "B_N" -> Ok(0, "BN", NoSignal)
      [] string = "B_P" -> Ok(0, "BP", NoSignal)
      [] string = "C_BALANCED" -> Ok(0, "CBalanced", NoSignal)
      [] string = "C_N" -> Ok(0, "CN", NoSignal)
      [] string = "C_P" -> Ok(0, "CP", NoSignal)
      [] string = "TX_MONITOR1" -> Ok(0, "TxMonitor1", NoSignal)
      [] string = "TX_MONITOR1_2" -> Ok(0, "TxMonitor12", NoSignal)
      [] string = "TX_MONITOR2" -> Ok(0, "TxMonitor2", NoSignal)
      [] OTHER -> UnexpectedStringValue(string)

\* RxPortSelect::to_str(&self)
RxPortSelect_to_str(v) ==
    CASE v = "ABalanced" -> "A_BALANCED"
      [] v = "AN" -> "A_N"
      [] v = "AP" -> "A_P"
      [] v = "BBalanced" -> "B_BALANCED"
      [] v = "BN" -> "B_N"
      [] v = "BP" -> "B_P"
      [] v = "CBalanced" -> "C_BALANCED"
      [] v = "CN" -> "C_N"
      [] v = "CP" -> "C_P"
      [] v = "TxMonitor1" -> "TX_MONITOR1"
      [] v = "TxMonitor12" -> "TX_MONITOR1_2"
      [] v = "TxMonitor2" -> "TX_MONITOR2"

\* impl TryFrom<String> for RxPortSelect
RxPortSelect_try_from(string) ==
    CASE string = "A_BALANCED" -> Ok(0, "ABalanced", NoSignal)
      [] string = "A_N" -> Ok(0, "AN", NoSignal)
      [] string = "A_P" -> Ok(0, "AP", NoSignal)
      [] string = "B_BALANCED" -> Ok(0, "BBalanced", NoSignal)
      [] string = "B_N" -> Ok(0, "BN", NoSignal)
      [] string = "B_P" -> Ok(0, "BP", NoSignal)
      [] string = "C_BALANCED" -> Ok(0, "CBalanced", NoSignal)
      [] string = "C_N" -> Ok(0, "CN", NoSignal)
      [] string = "C_P" -> Ok(0, "CP", NoSignal)
      [] string = "TX_MONITOR1" -> Ok(0, "TxMonitor1", NoSignal)
      [] string = "TX_MONITOR1_2" -> Ok(0, "TxMonitor12", NoSignal)
      [] string = "TX_MONITOR2" -> Ok(0, "TxMonitor2", NoSignal)
      [] OTHER -> UnexpectedStringValue(string)

\* enum TxPortSelect
TxPortSelect ==
    {"A", "B"}

\* TxPortSelect::to_str(&self)
TxPortSelect_to_str(v) ==
    CASE v = "A" -> "A"
      [] v = "B" -> "B"

\* impl TryFrom<String> for TxPortSelect
TxPortSelect_try_from(string) ==
    CASE string = "A" -> Ok(0, "A", NoSignal)
      [] string = "B" -> Ok(0, "B", NoSignal)
      [] OTHER -> UnexpectedStringValue(string)

\* the variants of an enumeration
Variants(e) ==
    CASE e = "CalibMode" -> CalibMode
      [] e = "ENSMMode" -> ENSMMode
      [] e = "GainControlMode" -> GainControlMode
      [] e = "RxPortSelect" -> RxPortSelect
      [] e = "TxPortSelect" -> TxPortSelect

\* <e>::to_str(&v)
to_str(e, v) ==
    CASE e = "CalibMode" -> CalibMode_to_str(v)
      [] e = "ENSMMode" -> ENSMMode_to_str(v)
      [] e = "GainControlMode" -> GainControlMode_to_str(v)
      [] e = "RxPortSelect" -> RxPortSelect_to_str(v)
      [] e = "TxPortSelect" -> TxPortSelect_to_str(v)

\* <e>::try_from(string)
try_from(e, string) ==
    CASE e = "CalibMode" -> CalibMode_try_from(string)
      [] e = "ENSMMode" -> ENSMMode_try_from(string)
      [] e = "GainControlMode" -> GainControlMode_try_from(string)
      [] e = "RxPortSelect" -> RxPortSelect_try_from(string)
      [] e = "TxPortSelect" -> TxPortSelect_try_from(string)

\* how `result` names the two functions of each enumeration
to_str_name(e) ==
    CASE e = "CalibMode" -> "CalibMode::to_str"
      [] e = "ENSMMode" -> "ENSMMode::to_str"
      [] e = "GainControlMode" -> "GainControlMode::to_str"
      [] e = "RxPortSelect" -> "RxPortSelect::to_str"
      [] e = "TxPortSelect" -> "TxPortSelect::to_str"
try_from_name(e) ==
    CASE e = "CalibMode" -> "CalibMode::try_from"
      [] e = "ENSMMode" -> "ENSMMode::try_from"
      [] e = "GainControlMode" -> "GainControlMode::try_from"
      [] e = "RxPortSelect" -> "RxPortSelect::try_from"
      [] e = "TxPortSelect" -> "TxPortSelect::try_from"

\* the getters of Channel that parse a string attribute, the enumeration each
\* parses into and the attribute each reads
Getters == {"Channel<Rx>::port", "Channel<Tx>::port", "Channel<Tx>::gain_control_mode"}
GetterEnum(g) ==
    CASE g = "Channel<Rx>::port" -> "RxPortSelect"
      [] g = "Channel<Tx>::port" -> "TxPortSelect"
      [] g = "Channel<Tx>::gain_control_mode" -> "GainControlMode"
GetterAttr(g) ==
    IF g = "Channel<Tx>::gain_control_mode" THEN "gain_control_mode" ELSE "rf_port_select"

\* strings the hardware may report that no enumeration renders: other case,
\* missing or extra characters, the empty string
StrayTokens ==
    {"", "a_balanced", "A_balanced", "A_BALANCED ", "TX_MONITOR12", "tx_monitor1",
     "AUTO", "Manual", "FDD", "Sleep", "pinctrl_fdd", "slow attack", "a", "C", "unknown"}

\* every string the hardware may report
Tokens == StrayTokens \cup UNION { { to_str(e, v) : v \in Variants(e) } : e \in Enums }

\* v.to_str(): the token is now in flight to the hardware
render(e, v) ==
    /\ hw_token' = to_str(e, v)
    /\ result' = Returned(to_str_name(e), -1, StrArg(v), Ok(0, to_str(e, v), NoSignal))
    /\ calls' = << >>
    /\ UNCHANGED << transceiver_vars, config_vars, ctor_vars >>

\* the hardware holds token t for the attribute read next
report(t) ==
    /\ hw_token' = t
    /\ result' = Returned("hardware", -1, StrArg(t), OkUnit)
    /\ calls' = << >>
    /\ UNCHANGED << transceiver_vars, config_vars, ctor_vars >>

\* <e>::try_from(string) on the string in flight
parse(e) ==
    /\ result' = Returned(try_from_name(e), -1, StrArg(hw_token), try_from(e, hw_token))
    /\ calls' = << >>
    /\ UNCHANGED << transceiver_vars, config_vars, ctor_vars, hw_token >>

\* Channel::port() / Channel::gain_control_mode() on lane chan_id:
\* let string = self.control.attr_read_str(attr)?; <e>::try_from(string)
getter(g, chan_id, dal_ok) ==
    /\ calls' = << Call("attr_read_str", chan_id, GetterAttr(g), 0) >>
    /\ result' = Returned(g, chan_id, StrArg(IF dal_ok THEN hw_token ELSE ""),
                          IF dal_ok THEN try_from(GetterEnum(g), hw_token)
                                    ELSE GeneralIIOError)
    /\ UNCHANGED << transceiver_vars, config_vars, ctor_vars, hw_token >>

InitEnum ==
    /\ direction \in Directions
    /\ buffer = NoBuffer
    /\ hw_buffers = 0
    /\ enabled = [l \in Lanes |-> [i |-> FALSE, q |-> FALSE]]
    /\ last_lifecycle = "none"
    /\ dropped = FALSE
    /\ calls = << >>
    /\ result = Constructed
    /\ attrs = [l \in Lanes |-> [rf_bandwidth |-> 0, sampling_frequency |-> 0]]
    /\ lo_frequency = 0
    /\ hw_token \in Tokens
    /\ missing = {}
    /\ ctor_pc = 0
    /\ ctor_trace = << >>

NextEnum ==
    \/ \E e \in Enums : \E v \in Variants(e) : render(e, v)
    \/ \E t \in Tokens : report(t)
    \/ \E e \in Enums : parse(e)
    \/ \E g \in Getters, l \in Lanes, ok \in BOOLEAN : getter(g, l, ok)

SpecEnum == InitEnum /\ [][NextEnum]_vars

----------------------------------------------------------------------------
(* AD9361::from_ctx (src/src/lib.rs:22-125): the devices and channels it
   resolves, in the order of the source, each followed by `?`. *)

PHY_NAME == "ad9361-phy"
DDS_NAME == "cf-ad9361-dds-core-lpc"
LPC_NAME == "cf-ad9361-lpc"

\* ctx.find_device(name)
FindDevice(name) == [kind |-> "device", device |-> name, id |-> "", output |-> FALSE]
\* device.find_channel(id, is_output)
FindChannel(device, id, is_output) ==
    [kind |-> "channel", device |-> device, id |-> id, output |-> is_output]

\* from_ctx with the oscillator channels looked up before the data devices
Resolutions_lo_first ==
    << FindDevice(PHY_NAME),
       FindChannel(PHY_NAME, "altvoltage0", TRUE),
       FindChannel(PHY_NAME, "altvoltage1", TRUE),
       FindDevice(LPC_NAME),
       FindDevice(DDS_NAME),
       FindChannel(LPC_NAME, "voltage0", FALSE),
       FindChannel(LPC_NAME, "voltage1", FALSE),
       FindChannel(PHY_NAME, "voltage0", FALSE),
       FindChannel(LPC_NAME, "voltage2", FALSE),
       FindChannel(LPC_NAME, "voltage3", FALSE),
       FindChannel(PHY_NAME, "voltage1", FALSE),
       FindChannel(DDS_NAME, "voltage0", TRUE),
       FindChannel(DDS_NAME, "voltage1", TRUE),
       FindChannel(PHY_NAME, "voltage0", TRUE),
       FindChannel(DDS_NAME, "voltage2", TRUE),
       FindChannel(DDS_NAME, "voltage3", TRUE),
       FindChannel(PHY_NAME, "voltage1", TRUE) >>

\* the lookups of from_ctx in source order: control_device, rx_device,
\* tx_device, rx_lo, tx_lo, then i, q and control of rx_channels[0],
\* rx_channels[1], tx_channels[0], tx_channels[1]
Resolutions ==
    << FindDevice(PHY_NAME),
       FindDevice(LPC_NAME),
       FindDevice(DDS_NAME),
       FindChannel(PHY_NAME, "altvoltage0", TRUE),
       FindChannel(PHY_NAME, "altvoltage1", TRUE),
       FindChannel(LPC_NAME, "voltage0", FALSE),
       FindChannel(LPC_NAME, "voltage1", FALSE),
       FindChannel(PHY_NAME, "voltage0", FALSE),
       FindChannel(LPC_NAME, "voltage2", FALSE),
       FindChannel(LPC_NAME, "voltage3", FALSE),
       FindChannel(PHY_NAME, "voltage1", FALSE),
       FindChannel(DDS_NAME, "voltage0", TRUE),
       FindChannel(DDS_NAME, "voltage1", TRUE),
       FindChannel(PHY_NAME, "voltage0", TRUE),
       FindChannel(DDS_NAME, "voltage2", TRUE),
       FindChannel(DDS_NAME, "voltage3", TRUE),
       FindChannel(PHY_NAME, "voltage1", TRUE) >>

\* everything a Context may hold or lack
Resources == { Resolutions[i] : i \in DOMAIN Resolutions }

\* enum DevicePart of a device name
DevicePart(name) ==
    CASE name = PHY_NAME -> "Phy"
      [] name = DDS_NAME -> "Dds"
      [] name = LPC_NAME -> "Lpc"

\* .ok_or(Error::NoSuchDevice(part)) / .ok_or(Error::NoChannelOnDevice)
NotFound(r) ==
    IF r.kind = "device" THEN NoSuchDevice(DevicePart(r.device)) ELSE NoChannelOnDevice

Pending == Returned("from_ctx", -1, NoArg, Err("pending", 0, ""))

\* one lookup of from_ctx and the `?` after it: a lookup of something the
\* Context lacks returns the error from from_ctx
resolve ==
    /\ ctor_pc \in DOMAIN Resolutions
    /\ ctor_trace' = Append(ctor_trace, Resolutions[ctor_pc])
    /\ IF Resolutions[ctor_pc] \in missing
       THEN /\ result' = Returned("from_ctx", -1, NoArg, NotFound(Resolutions[ctor_pc]))
            /\ ctor_pc' = 0
       ELSE /\ ctor_pc' = ctor_pc + 1
            /\ UNCHANGED result
    /\ UNCHANGED << transceiver_vars, config_vars, hw_token, missing, calls >>

\* lib.rs:106-124: both Transceivers are built with buffer: None and the facade
\* is returned
build ==
    /\ ctor_pc = Len(Resolutions) + 1
    /\ ctor_pc' = 0
    /\ buffer' = NoBuffer
    /\ result' = Constructed
    /\ UNCHANGED << direction, hw_buffers, enabled, last_lifecycle, dropped >>
    /\ UNCHANGED << config_vars, hw_token, missing, ctor_trace, calls >>

\* from_ctx is entered with a Context that lacks at most MaxMissing resources
InitCtor ==
    /\ direction = "Rx"
    /\ buffer = NoBuffer
    /\ hw_buffers = 0
    /\ enabled = [l \in Lanes |-> [i |-> FALSE, q |-> FALSE]]
    /\ last_lifecycle = "none"
    /\ dropped = FALSE
    /\ calls = << >>
    /\ result = Pending
    /\ attrs = [l \in Lanes |-> [rf_bandwidth |-> 0, sampling_frequency |-> 0]]
    /\ lo_frequency = 0
    /\ hw_token = ""
    /\ missing \in { m \in SUBSET Resources : Cardinality(m) <= MaxMissing }
    /\ ctor_pc = 1
    /\ ctor_trace = << >>

NextCtor ==
    \/ resolve
    \/ build

SpecCtor == InitCtor /\ [][NextCtor]_vars

----------------------------------------------------------------------------
(* Properties of the buffer lifecycle and the streaming calls, under Spec *)

StreamingOps == {"pool_samples_to_buff", "read", "push_samples_to_device", "write"}
RxStreamingOps == {"pool_samples_to_buff", "read"}

\* the buffer-not-allocated error of the direction an operation belongs to
NotAllocated(op) == IF op \in RxStreamingOps THEN NoRxBuff ELSE NoTxBuff

\* C1: a streaming call (refill, read, write, push) made while the buffer is
\* absent returns NoRxBuff on Rx and NoTxBuff on Tx, on either lane, makes no
\* Device Access Layer call, and leaves the buffer absent.
C1_NoBufferFailsFast ==
    [][ (~buffer.some /\ result'.op \in StreamingOps)
        => /\ result'.ret = NotAllocated(result'.op)
           /\ (result'.op \in RxStreamingOps <=> direction = "Rx")
           /\ calls' = << >>
           /\ buffer' = NoBuffer ]_vars

\* C1 witness: write on lane 1 of a Tx Transceiver without buffer was refused
C1_Witness ==
    /\ direction = "Tx"
    /\ result.op = "write" /\ result.lane = 1
    /\ result.ret = NoTxBuff
    /\ calls = << >>
    /\ buffer = NoBuffer

\* C2: the lifecycle has two states and starts without buffer; on a live
\* Transceiver the buffer is present exactly when the most recent state-changing
\* call was a successful create_buffer; destroy_buffer always ends without
\* buffer; and a streaming call is refused as buffer-not-allocated exactly when
\* the most recent state-changing call was not a successful create_buffer.
C2_Lifecycle ==
    /\ ~dropped => (buffer.some <=> last_lifecycle = "create")
    /\ (result.op = "create_buffer" /\ result.ret.ok) => buffer.some
    /\ result.op = "destroy_buffer" => buffer = NoBuffer
    /\ result.op = "from_ctx" => buffer = NoBuffer
    /\ result.op \in StreamingOps
         => (result.ret \in {NoRxBuff, NoTxBuff} <=> last_lifecycle # "create")

\* C2 witness: create, then destroy, then read(0) refused with NoRxBuff
C2_Witness ==
    /\ last_lifecycle = "destroy"
    /\ result.op = "read" /\ result.lane = 0
    /\ result.ret = NoRxBuff

C9_Teardown ==
    [][ result'.op = "drop"
        => /\ calls' = (IF buffer.some THEN << Call("buffer_destroy", -1, "", 0) >>
                                       ELSE << >>)
                       \o << Call("disable", 0, "i", 0), Call("disable", 0, "q", 0),
                             Call("disable", 1, "i", 0), Call("disable", 1, "q", 0) >>
           /\ buffer' = NoBuffer
           /\ hw_buffers' = 0
           /\ \A l \in Lanes : ~enabled'[l].i /\ ~enabled'[l].q ]_vars

\* C9 witness: a Transceiver with an allocated buffer was destroyed
C9_Witness ==
    /\ dropped
    /\ last_lifecycle = "create"
    /\ Len(calls) = 5
    /\ buffer = NoBuffer

\* C11: with a buffer allocated, read(lane) is never refused for want of a
\* refill: it returns NoRxBuff never, and when both sub-channel reads succeed it
\* returns the I and Q blocks the buffer holds for that lane, whether or not a
\* refill came before. read leaves the buffer and its contents as they were, so
\* a second read of the lane returns the same Signal; and on Rx the contents of
\* an allocated buffer change only in a successful refill, so what read returns
\* is what the most recent successful refill left.
C11_ReadNeedsNoRefill ==
    [][ /\ (result'.op = "read" /\ buffer.some)
           => /\ result'.ret # NoRxBuff
              /\ result'.ret.ok \/ result'.ret = GeneralIIOError
              /\ result'.ret.ok => result'.ret.sig = buffer.data[result'.lane]
              /\ calls' # << >> /\ \A i \in DOMAIN calls' : calls'[i].chan = result'.lane
              /\ buffer' = buffer
              /\ last_lifecycle' = last_lifecycle /\ hw_buffers' = hw_buffers
        /\ (result.op = "read" /\ result'.op = "read" /\ result.lane = result'.lane
               /\ result.ret.ok /\ result'.ret.ok)
           => result'.ret.sig = result.ret.sig
        /\ (direction = "Rx" /\ buffer.some /\ buffer'.some /\ buffer'.data # buffer.data)
           => \/ result'.op = "pool_samples_to_buff" /\ result'.ret.ok
              \/ result'.op = "create_buffer" /\ result'.ret.ok ]_vars

\* C11 witness: read(1) succeeded on an allocated buffer and returned the blocks
\* the buffer holds for lane 1, which differ from those of lane 0
C11_Witness ==
    /\ direction = "Rx"
    /\ result.op = "read" /\ result.lane = 1 /\ result.ret.ok
    /\ result.ret.sig = buffer.data[1]
    /\ buffer.data[1] # buffer.data[0]
    /\ buffer.some

\* the Device Access Layer calls a streaming operation makes, each at most once
\* and in this order
StreamingCalls(op, lane) ==
    CASE op = "pool_samples_to_buff" -> << Call("refill", -1, "", 0) >>
      [] op = "push_samples_to_device" -> << Call("push", -1, "", 0) >>
      [] op = "read" -> << Call("read", lane, "i", 0), Call("read", lane, "q", 0) >>
      [] op = "write" -> << Call("write", lane, "i", 0), Call("write", lane, "q", 0) >>

\* C12: a failing hardware call leaves the lifecycle state alone. A create_buffer
\* whose allocation fails returns GeneralIIOError after that one call and the
\* buffer field is what it was, absent or the buffer allocated before. A refill,
\* push, read or write that fails with a buffer allocated returns
\* GeneralIIOError, the buffer is still allocated, and no call was made twice:
\* the calls made are a beginning of the operation's calls.
C12_FailureKeepsLifecycle ==
    [][ /\ (result'.op = "create_buffer" /\ ~result'.ret.ok)
           => /\ result'.ret = GeneralIIOError
              /\ Len(calls') = 1 /\ calls'[1].fn = "create_buffer"
              /\ buffer' = buffer
              /\ hw_buffers' = hw_buffers
              /\ last_lifecycle' = last_lifecycle
        /\ (result'.op \in StreamingOps /\ ~result'.ret.ok /\ buffer.some)
           => /\ result'.ret = GeneralIIOError
              /\ buffer'.some
              /\ buffer'.sample_count = buffer.sample_count
              /\ buffer'.cyclic = buffer.cyclic
              /\ hw_buffers' = hw_buffers
              /\ last_lifecycle' = last_lifecycle
              /\ calls' # << >>
              /\ calls' = SubSeq(StreamingCalls(result'.op, result'.lane), 1, Len(calls')) ]_vars

\* C12 witness: an allocation failed on a Transceiver that held a buffer, and
\* the buffer is still there
C12_Witness ==
    /\ result.op = "create_buffer"
    /\ result.ret = GeneralIIOError
    /\ buffer.some
    /\ hw_buffers = 1
    /\ last_lifecycle = "create"

----------------------------------------------------------------------------
(* Properties of the integer setters, under SpecConfig *)

\* what a range-validated setter must do with value v for attribute attr of
\* lane l, given the range lo <= v < hi: write exactly when v is in the range
\* (the write itself may fail in the Device Access Layer), otherwise return
\* OutOfRangeIntValue(v), make no call and leave the hardware alone
ValidatedStep(l, attr, v, lo, hi) ==
    IF lo <= v /\ v < hi
    THEN /\ calls' = << Call("attr_write_int", l, attr, v) >>
         /\ result'.ret \in {OkUnit, GeneralIIOError}
         /\ result'.ret = OkUnit => attrs'[l][attr] = v
    ELSE /\ result'.ret = OutOfRangeIntValue(v)
         /\ calls' = << >>
         /\ attrs' = attrs

\* C4: Channel::set_rf_bandwidth(b) writes rf_bandwidth exactly when
\* 200000 <= b < 56000000 and Channel::set_sampling_frequency(s) writes
\* sampling_frequency exactly when 2083333 <= s < 61440000; outside the range
\* they return OutOfRangeIntValue with that value and write nothing.
C4_ChannelRangeChecked ==
    [][ /\ result'.op = "Channel::set_rf_bandwidth"
           => ValidatedStep(result'.lane, "rf_bandwidth", result'.arg.int,
                            200000, 56000000)
        /\ result'.op = "Channel::set_sampling_frequency"
           => ValidatedStep(result'.lane, "sampling_frequency", result'.arg.int,
                            2083333, 61440000) ]_vars

\* C4 witness: the exclusive upper end of the bandwidth range was rejected on
\* lane 1 after the value below it had been written there
C4_Witness ==
    /\ result.op = "Channel::set_rf_bandwidth" /\ result.lane = 1
    /\ result.arg.int = 56000000
    /\ result.ret = OutOfRangeIntValue(56000000)
    /\ calls = << >>
    /\ attrs[1].rf_bandwidth = 55999999

\* C5 (the claim as stated): set_lo(f) returns OutOfRangeIntValue(f) and makes
\* no hardware write for f below 46875001 (every f of the model is below the
\* upper end 6000000000), and writes the frequency otherwise.
C5_SetLoRangeChecked ==
    result.op = "set_lo"
    => IF 46875001 <= result.arg.int
       THEN calls = << Call("attr_write_int", -1, "frequency", result.arg.int) >>
       ELSE result.ret = OutOfRangeIntValue(result.arg.int) /\ calls = << >>

\* C10 (the claim as stated): a per-lane setter of the Transceiver returns what
\* the Channel setter of that lane returns for the same value and makes the same
\* hardware writes, so an out-of-range value is rejected without hardware access.
C10_TransceiverDelegates ==
    /\ result.op = "Transceiver::set_rf_bandwidth"
       => \E ok \in BOOLEAN :
             LET out == Validated(RF_BANDWIDTH_RANGE, result.lane, "rf_bandwidth",
                                  result.arg.int, ok) IN
             result.ret = out.ret /\ calls = out.calls
    /\ result.op = "Transceiver::set_sampling_frequency"
       => \E ok \in BOOLEAN :
             LET out == Validated(SAMPLING_FREQUENCY_RANGE, result.lane,
                                  "sampling_frequency", result.arg.int, ok) IN
             result.ret = out.ret /\ calls = out.calls

----------------------------------------------------------------------------
(* Properties of the mode enumerations, under SpecEnum *)

\* C6: for every enumeration, to_str is defined for every variant, parsing the
\* token to_str rendered returns Ok of the variant that was rendered, and two
\* different variants are rendered as different tokens.
C6_RoundTrip ==
    [][ \A e \in Enums :
          /\ result'.op = to_str_name(e)
             => result'.ret.ok /\ hw_token' = result'.ret.str
          /\ (result.op = to_str_name(e) /\ result'.op = try_from_name(e))
             => /\ result'.arg.str = result.ret.str
                /\ result'.ret = Ok(0, result.arg.str, NoSignal)
          /\ (result.op = to_str_name(e) /\ result'.op = to_str_name(e)
                 /\ result.arg.str # result'.arg.str)
             => result.ret.str # result'.ret.str ]_vars

\* C6 witness: TX_MONITOR1_2, the token of TxMonitor12, was parsed to TxMonitor12
C6_Witness ==
    /\ result.op = "RxPortSelect::try_from"
    /\ result.arg.str = "TX_MONITOR1_2"
    /\ result.ret = Ok(0, "TxMonitor12", NoSignal)

\* the fixed tokens of each enumeration
FixedTokens(e) ==
    CASE e = "CalibMode" ->
           {"auto", "manual", "manual_tx_quad", "tx_quad", "rf_dc_offs", "rssi_gain_step"}
      [] e = "ENSMMode" ->
           {"sleep", "wait", "alert", "fdd", "pinctrl", "pinctrl_fdd_indep"}
      [] e = "GainControlMode" ->
           {"fast_attack", "hybrid", "manual", "slow_attack"}
      [] e = "RxPortSelect" ->
           {"A_BALANCED", "A_N", "A_P", "B_BALANCED", "B_N", "B_P", "C_BALANCED", "C_N",
            "C_P", "TX_MONITOR1", "TX_MONITOR1_2", "TX_MONITOR2"}
      [] e = "TxPortSelect" -> {"A", "B"}

\* C7: parsing a string that is not exactly one of the enumeration's fixed
\* tokens returns UnexpectedStringValue with that string unchanged, and a getter
\* whose hardware read delivered such a string returns that error.
C7_StrayTokenRejected ==
    /\ \A e \in Enums :
          (result.op = try_from_name(e) /\ result.arg.str \notin FixedTokens(e))
          => result.ret = UnexpectedStringValue(result.arg.str)
    /\ \A g \in Getters :
          (result.op = g /\ result.ret # GeneralIIOError
             /\ hw_token \notin FixedTokens(GetterEnum(g)))
          => result.ret = UnexpectedStringValue(hw_token)

\* C7 witness: the hardware reported "a_balanced" and Channel<Rx>::port
\* returned it in UnexpectedStringValue
C7_Witness ==
    /\ result.op = "Channel<Rx>::port"
    /\ hw_token = "a_balanced"
    /\ result.ret = UnexpectedStringValue("a_balanced")
    /\ Len(calls) = 1

----------------------------------------------------------------------------
(* Properties of the construction of the facade, under SpecCtor *)

\* the kind of lookup from_ctx makes at each position: the control device, the
\* receive and the transmit data device, the Rx and the Tx oscillator channel,
\* then lane channels only
ExpectedAt(i, r) ==
    CASE i = 1 -> r = [kind |-> "device", device |-> "ad9361-phy", id |-> "", output |-> FALSE]
      [] i = 2 -> r = [kind |-> "device", device |-> "cf-ad9361-lpc", id |-> "", output |-> FALSE]
      [] i = 3 -> r = [kind |-> "device", device |-> "cf-ad9361-dds-core-lpc", id |-> "",
                       output |-> FALSE]
      [] i = 4 -> r = [kind |-> "channel", device |-> "ad9361-phy", id |-> "altvoltage0",
                       output |-> TRUE]
      [] i = 5 -> r = [kind |-> "channel", device |-> "ad9361-phy", id |-> "altvoltage1",
                       output |-> TRUE]
      [] OTHER -> /\ r.kind = "channel"
                  /\ r.id \in {"voltage0", "voltage1", "voltage2", "voltage3"}

\* the error that belongs to a lookup that found nothing
ExpectedError(r) ==
    IF r.kind = "channel" THEN NoChannelOnDevice
    ELSE CASE r.device = "ad9361-phy" -> NoSuchDevice("Phy")
           [] r.device = "cf-ad9361-lpc" -> NoSuchDevice("Lpc")
           [] r.device = "cf-ad9361-dds-core-lpc" -> NoSuchDevice("Dds")

\* C8: from_ctx looks up the control device, the receive data device, the
\* transmit data device, the two oscillator channels and then the lane channels,
\* in that order; the first lookup that fails ends it with the error of that
\* lookup and nothing is looked up afterwards; the facade is returned only when
\* nothing was missing; without the control device the result is
\* NoSuchDevice(Phy) after that single lookup.
C8_ConstructionOrder ==
    /\ \A i \in DOMAIN ctor_trace : ExpectedAt(i, ctor_trace[i])
    /\ \A i \in DOMAIN ctor_trace : i < Len(ctor_trace) => ctor_trace[i] \notin missing
    /\ (ctor_trace # << >> /\ ctor_trace[Len(ctor_trace)] \in missing)
       => /\ ctor_pc = 0
          /\ result.ret = ExpectedError(ctor_trace[Len(ctor_trace)])
    /\ (ctor_pc = 0 /\ result.ret.ok)
       => /\ \A r \in Resources : r \in missing => \A i \in DOMAIN ctor_trace : ctor_trace[i] # r
          /\ \A i \in DOMAIN ctor_trace : ctor_trace[i] \notin missing
          /\ Len(ctor_trace) = Cardinality(Resources)
    /\ (ctor_pc = 0 /\ ~result.ret.ok)
       => ctor_trace # << >> /\ ctor_trace[Len(ctor_trace)] \in missing
    /\ (ctor_pc = 0 /\ [kind |-> "device", device |-> "ad9361-phy", id |-> "",
                        output |-> FALSE] \in missing)
       => /\ result.ret = NoSuchDevice("Phy")
          /\ Len(ctor_trace) = 1

\* C8 witness: the Context lacks the control device and a lane channel; from_ctx
\* returned NoSuchDevice(Phy) after one lookup
C8_Witness ==
    /\ ctor_pc = 0
    /\ Cardinality(missing) = 2
    /\ FindDevice(PHY_NAME) \in missing
    /\ result.ret = NoSuchDevice("Phy")
    /\ Len(ctor_trace) = 1

====
